---- MODULE Spec2Model ----
(***************************************************************************)
(* Engagement-letter e-signature reconciliation (Intakr).                  *)
(*                                                                         *)
(* Four edge functions share two tables (engagement_letters, clients) and  *)
(* one storage bucket (signed-letters):                                    *)
(*   boldsign-webhook        push path, one request per provider event     *)
(*   fetch-signed-document   pull path, status-checking variant            *)
(*   fetch-signed-document   pull path, service-level variant (part_001)   *)
(*   send-for-esignature     submits a letter to the provider              *)
(* A request is a sequence of steps, one per awaited call on a table, the  *)
(* bucket, the provider or Slack; steps of different requests interleave.  *)
(* Every awaited call may succeed or fail; the outcome is chosen by the    *)
(* environment at the step.                                                *)
(***************************************************************************)
EXTENDS Integers, FiniteSets, Sequences, TLC

VARIABLES
    env,        \* Deno.env: webhookSecret, apiKey, slackUrl
    letters,    \* table engagement_letters, by id
    clients,    \* table clients, by id
    storage,    \* bucket signed-letters: set of <<path, bytes>>
    issued,     \* number of document ids the provider has handed out
    slots       \* requests being handled, by slot

vars == <<env, letters, clients, storage, issued, slots>>

shared == <<env, letters, clients, storage, issued>>

-----------------------------------------------------------------------------
(* Bounds *)

\* document ids the provider can hand out
MaxDocs == 2
\* calendar days a request can run on
MaxDay == 1
\* awaited calls that can fail within one request
MaxFaults == 1

-----------------------------------------------------------------------------
(* Data *)

Letters == {"L1"}
Clients == {"C1"}
\* engagement_letters.client_id (never written by these functions)
LetterClient == [l \in Letters |-> "C1"]

Days == 1 .. MaxDay
NoDate == 0
DocIds == 1 .. MaxDocs
\* a null / absent document id
NoDoc == 0
NoPath == <<>>
NoStatus == "null"
NoLetter == ""

Secrets == {"k1"}
\* an unset environment variable
Unset == ""

NewLetter ==
    [client_id |-> "C1", boldsign_document_id |-> NoDoc, esign_status |-> NoStatus,
     approval_status |-> "Draft", signed_pdf_path |-> NoPath]

NewClient == [status |-> "Intake", letter_sent |-> NoDate, letter_executed |-> NoDate]

NoResp ==
    [status |-> 0, msg |-> "", path |-> NoPath, alreadyStored |-> FALSE,
     documentId |-> NoDoc]

\* the three outcomes of fetch(): a 2xx response, a non-2xx response, a rejection
FetchOutcomes == {"ok", "notok", "throw"}
PdfBytes == {"pdf", "empty"}

\* a request: the handler, its place in it, the request, its local variables
\* (letter, bytes, today), the awaited calls made and those that failed, the
\* failures still allowed, and the response
IdleSlot ==
    [kind |-> "idle", pc |-> "idle", req |-> <<>>, letter |-> <<>>, bytes |-> "",
     today |-> NoDate, calls |-> {}, failed |-> {}, budget |-> 0, resp |-> NoResp]

Free(r) == slots[r].pc = "idle"

\* the outcomes the environment may choose for an awaited call
Errors(s) == IF s.budget > 0 THEN BOOLEAN ELSE {FALSE}
Outcomes(s) == IF s.budget > 0 THEN FetchOutcomes ELSE {"ok"}

\* new Response(JSON.stringify(...), { status })
Response(status, msg) ==
    [status |-> status, msg |-> msg, path |-> NoPath, alreadyStored |-> FALSE,
     documentId |-> NoDoc]

\* the slot of a request that has been answered
Answered(s, resp) == [s EXCEPT !.pc = "done", !.resp = resp]

-----------------------------------------------------------------------------
(* boldsign-webhook *)

HANDLED_EVENTS == {"Sent", "Viewed", "Signed", "Completed", "Declined", "Expired", "Revoked"}

mapEventToStatusPassThrough(event) ==
    CASE event = "Sent" -> "sent"
      [] event = "Viewed" -> "viewed"
      [] event = "Signed" -> "signed"
      [] OTHER -> event

mapEventToStatus(event) ==
    CASE event = "Sent" -> "sent"
      [] event = "Viewed" -> "viewed"
      [] event = "Signed" -> "signed"
      [] event = "Completed" -> "completed"
      [] event = "Declined" -> "declined"
      [] event = "Expired" -> "expired"
      [] event = "Revoked" -> "revoked"
      [] OTHER -> NoStatus

\* HMAC-SHA256 of the body under the secret: a digest that determines both
HmacSha256(secret, body) == <<secret, body.json, body.eventType, body.documentId>>

\* btoa(String.fromCharCode(...))
Btoa(digest) == <<"b64">> \o digest

verifyWebhookSignatureAlwaysValid(body, signature, secret) == TRUE

verifyWebhookSignature(body, signature, secret) ==
    Btoa(HmacSha256(secret, body)) = signature

\* raw request bodies: text that is not JSON, or a JSON payload with an event
\* type ("" when absent) and a document id (NoDoc when absent)
NotJson == [json |-> FALSE, eventType |-> "", documentId |-> NoDoc]
PingBody == [json |-> TRUE, eventType |-> "", documentId |-> NoDoc]
EventBodies == [json : {TRUE}, eventType : HANDLED_EVENTS, documentId : DocIds]
JsonBodies ==
    EventBodies
        \cup [json : {TRUE}, eventType : {"Reassigned"}, documentId : DocIds]
        \cup {PingBody, [json |-> TRUE, eventType |-> "Completed", documentId |-> NoDoc]}
Bodies == JsonBodies \cup {NotJson}

\* X-BoldSign-Signature values: absent, the provider's, one made with another
\* key, one made for another body
ProviderSignature(body) == Btoa(HmacSha256("k1", body))
OtherSignatures(body) ==
    {<<>>, Btoa(HmacSha256("k2", body)), Btoa(HmacSha256("k1", PingBody))}

\* the provider's deliveries, and requests that are not the provider's
SignedRequests == {[method |-> "POST", sig |-> ProviderSignature(b), body |-> b] : b \in Bodies}
WebhookRequests ==
    [method : {"OPTIONS", "GET"}, sig : {<<>>}, body : {PingBody}]
        \cup SignedRequests
        \cup UNION {[method : {"POST"}, sig : OtherSignatures(b), body : {b}] :
                        b \in {NotJson, [json |-> TRUE, eventType |-> "Completed",
                                         documentId |-> 1]}}

WebhookEarlyResponseNoClassify(req) ==
    IF req.method = "OPTIONS" THEN Response(200, "ok")
    ELSE IF req.method # "POST" THEN Response(405, "Method not allowed")
    ELSE IF env.webhookSecret # Unset /\ req.sig = <<>>
        THEN Response(401, "Missing webhook signature")
    ELSE IF env.webhookSecret # Unset
            /\ ~verifyWebhookSignature(req.body, req.sig, env.webhookSecret)
        THEN Response(401, "Invalid webhook signature")
    ELSE IF ~req.body.json THEN Response(500, "SyntaxError")
    ELSE NoResp

WebhookEarlyResponseRequireSignature(req) ==
    IF req.method = "OPTIONS" THEN Response(200, "ok")
    ELSE IF req.method # "POST" THEN Response(405, "Method not allowed")
    ELSE IF req.sig = <<>> THEN Response(401, "Missing webhook signature")
    ELSE IF env.webhookSecret # Unset
            /\ ~verifyWebhookSignature(req.body, req.sig, env.webhookSecret)
        THEN Response(401, "Invalid webhook signature")
    ELSE IF ~req.body.json THEN Response(500, "SyntaxError")
    ELSE IF req.body.eventType = "" \/ req.body.documentId = NoDoc
        THEN Response(200, "Acknowledged")
    ELSE IF req.body.eventType \notin HANDLED_EVENTS THEN Response(200, "Event not handled")
    ELSE NoResp

\* lines 44-100: the response given before any table is read, NoResp when the
\* handler goes on to the letter lookup
WebhookEarlyResponse(req) ==
    IF req.method = "OPTIONS" THEN Response(200, "ok")
    ELSE IF req.method # "POST" THEN Response(405, "Method not allowed")
    ELSE IF env.webhookSecret # Unset /\ req.sig = <<>>
        THEN Response(401, "Missing webhook signature")
    ELSE IF env.webhookSecret # Unset
            /\ ~verifyWebhookSignature(req.body, req.sig, env.webhookSecret)
        THEN Response(401, "Invalid webhook signature")
    ELSE IF ~req.body.json THEN Response(500, "SyntaxError")
    ELSE IF req.body.eventType = "" \/ req.body.documentId = NoDoc
        THEN Response(200, "Acknowledged")
    ELSE IF req.body.eventType \notin HANDLED_EVENTS THEN Response(200, "Event not handled")
    ELSE IF mapEventToStatus(req.body.eventType) = NoStatus THEN Response(200, "")
    ELSE NoResp

FindByDocumentIdAnyLetter(documentId) == Letters

\* .eq('boldsign_document_id', documentId).limit(1)
FindByDocumentId(documentId) ==
    {l \in Letters : letters[l].boldsign_document_id = documentId}

\* the request as the handler starts on it
Started(kind, req, budget) ==
    [IdleSlot EXCEPT !.kind = kind, !.req = req, !.budget = budget]

\* an awaited call and its outcome, noted on the request
Called(s, call, error) ==
    [s EXCEPT !.calls = @ \cup {call},
              !.failed = IF error THEN @ \cup {call} ELSE @,
              !.budget = IF error THEN @ - 1 ELSE @]

\* lines 43-121
WebhookReceive(r, requests, budget) ==
    /\ Free(r)
    /\ \E req \in requests :
        LET s == Started("webhook", req, budget)
            early == WebhookEarlyResponse(req)
            found == FindByDocumentId(req.body.documentId)
        IN  IF early # NoResp
                THEN slots' = [slots EXCEPT ![r] = Answered(s, early)]
            ELSE \E findError \in Errors(s) :
                LET sel == Called(s, "select", findError)
                IN  IF findError \/ found = {}
                        THEN slots' = [slots EXCEPT ![r] =
                                Answered(sel, Response(200, "Document not found in system"))]
                    ELSE \E l \in found :
                            slots' = [slots EXCEPT ![r] =
                                [sel EXCEPT !.pc = "update",
                                            !.letter = [id |-> l,
                                                        client_id |-> letters[l].client_id]]]
    /\ UNCHANGED shared

WebhookUpdateDataKeepCompleted(row, eventType, esignStatus) ==
    IF row.esign_status = "completed" THEN row
    ELSE [row EXCEPT !.esign_status = esignStatus,
                     !.approval_status = IF eventType = "Completed" THEN "Executed" ELSE @]

WebhookUpdateDataAlwaysExecuted(row, eventType, esignStatus) ==
    [row EXCEPT !.esign_status = esignStatus, !.approval_status = "Executed"]

\* lines 124-127: the row after .update(updateData)
WebhookUpdateData(row, eventType, esignStatus) ==
    [row EXCEPT !.esign_status = esignStatus,
                !.approval_status = IF eventType = "Completed" THEN "Executed" ELSE @]

WebhookOkNeverAnswers(s) == [s EXCEPT !.pc = "pending"]

\* line 226
WebhookOk(s) == Answered(s, Response(200, mapEventToStatus(s.req.body.eventType)))

WebhookAfterRetrievalFailClosed(s) ==
    IF s.failed \cap {"download", "upload"} # {}
        THEN Answered(s, Response(502, "retrieval failed"))
    ELSE IF s.letter.client_id # "" THEN [s EXCEPT !.pc = "client"]
    ELSE Answered(s, Response(200, mapEventToStatus(s.req.body.eventType)))

WebhookAfterRetrievalRetryDownload(s) ==
    IF s.pc = "download" THEN s
    ELSE IF s.letter.client_id # "" THEN [s EXCEPT !.pc = "client"]
    ELSE Answered(s, Response(200, mapEventToStatus(s.req.body.eventType)))

\* line 173: what follows the retrieval block
WebhookAfterRetrieval(s) ==
    IF s.letter.client_id # "" THEN [s EXCEPT !.pc = "client"] ELSE WebhookOk(s)

WebhookAfterUpdateStopOnError(s) ==
    IF "status" \in s.failed THEN Answered(s, Response(500, "update failed"))
    ELSE IF s.req.body.eventType # "Completed" THEN WebhookOk(s)
    ELSE IF env.apiKey THEN [s EXCEPT !.pc = "download"]
    ELSE WebhookAfterRetrieval(s)

WebhookAfterUpdateAnyEvent(s) ==
    IF env.apiKey THEN [s EXCEPT !.pc = "download"] ELSE WebhookAfterRetrieval(s)

WebhookAfterUpdateNeedsApiKey(s) ==
    IF s.req.body.eventType # "Completed" \/ ~env.apiKey THEN WebhookOk(s)
    ELSE [s EXCEPT !.pc = "download"]

\* lines 133-140: what follows the status update
WebhookAfterUpdate(s) ==
    IF s.req.body.eventType # "Completed" THEN WebhookOk(s)
    ELSE IF env.apiKey THEN [s EXCEPT !.pc = "download"]
    ELSE WebhookAfterRetrieval(s)

\* lines 123-140
WebhookUpdateStatus(r) ==
    /\ slots[r].kind = "webhook" /\ slots[r].pc = "update"
    /\ \E updateError \in Errors(slots[r]) :
        LET s == Called(slots[r], "status", updateError)
            evt == s.req.body.eventType
        IN  /\ letters' = IF updateError THEN letters
                          ELSE [letters EXCEPT ![s.letter.id] =
                                    WebhookUpdateData(@, evt, mapEventToStatus(evt))]
            /\ slots' = [slots EXCEPT ![r] = WebhookAfterUpdate(s)]
    /\ UNCHANGED <<env, clients, storage, issued>>

UpsertNothing(bucket, path, bytes) == bucket

\* upload(path, bytes, { upsert: true })
Upsert(bucket, path, bytes) == {o \in bucket : o[1] # path} \cup {<<path, bytes>>}

\* what a download can come to: a 2xx response with the document, a 2xx
\* response with no bytes, a non-2xx response, a rejected fetch
DownloadOutcomes(s) == IF s.budget > 0 THEN {"ok", "empty", "notok", "throw"} ELSE {"ok"}

webhookStoragePathPerEvent(s) ==
    <<s.letter.client_id, "/", s.letter.id, "_", s.req.body.eventType, ".pdf">>

\* line 148: `${letter.client_id}/${letter.id}_signed.pdf`
webhookStoragePath(s) == <<s.letter.client_id, "/", s.letter.id, "_signed.pdf">>

\* lines 141-147, 163-168: the length of the payload is not looked at
WebhookDownload(r) ==
    /\ slots[r].kind = "webhook" /\ slots[r].pc = "download"
    /\ \E outcome \in DownloadOutcomes(slots[r]) :
        LET s == Called(slots[r], "download", outcome # "ok")
        IN  slots' = [slots EXCEPT ![r] =
                IF outcome \in {"notok", "throw"} THEN WebhookAfterRetrieval(s)
                ELSE [s EXCEPT !.pc = "upload",
                               !.bytes = IF outcome = "ok" THEN "pdf" ELSE "empty"]]
    /\ UNCHANGED shared

\* lines 148-157
WebhookUpload(r) ==
    /\ slots[r].kind = "webhook" /\ slots[r].pc = "upload"
    /\ \E uploadError \in Errors(slots[r]) :
        LET s == Called(slots[r], "upload", uploadError)
        IN  /\ storage' = IF uploadError THEN storage
                          ELSE Upsert(storage, webhookStoragePath(s), s.bytes)
            /\ slots' = [slots EXCEPT ![r] =
                    IF uploadError THEN WebhookAfterRetrieval(s)
                    ELSE [s EXCEPT !.pc = "setpath"]]
    /\ UNCHANGED <<env, letters, clients, issued>>

\* lines 158-162: the result of the update is not looked at
WebhookStorePath(r) ==
    /\ slots[r].kind = "webhook" /\ slots[r].pc = "setpath"
    /\ \E updateError \in Errors(slots[r]) :
        LET s == Called(slots[r], "path", updateError)
        IN  /\ letters' = IF updateError THEN letters
                          ELSE [letters EXCEPT ![s.letter.id].signed_pdf_path =
                                    webhookStoragePath(s)]
            /\ slots' = [slots EXCEPT ![r] = WebhookAfterRetrieval(s)]
    /\ UNCHANGED <<env, clients, storage, issued>>

WebhookAfterClientStopOnError(s) ==
    IF env.slackUrl /\ "client" \notin s.failed THEN [s EXCEPT !.pc = "notify"]
    ELSE WebhookOk(s)

WebhookAfterClientAlwaysNotify(s) == [s EXCEPT !.pc = "notify"]

\* lines 180-186, 226
WebhookAfterClient(s) ==
    IF env.slackUrl THEN [s EXCEPT !.pc = "notify"] ELSE WebhookOk(s)

WebhookClientUpdateDataNoDate(row, today) == [row EXCEPT !.status = "Executed"]

WebhookClientUpdateDataAlternate(row, today) ==
    [row EXCEPT !.status = IF @ = "Executed" THEN "Letter Sent" ELSE "Executed",
                !.letter_executed = today]

\* line 177: the row after .update({ status: 'Executed', letter_executed: today })
WebhookClientUpdateData(row, today) ==
    [row EXCEPT !.status = "Executed", !.letter_executed = today]

\* lines 173-186
WebhookUpdateClient(r) ==
    /\ slots[r].kind = "webhook" /\ slots[r].pc = "client"
    /\ \E today \in Days, clientError \in Errors(slots[r]) :
        LET s == [Called(slots[r], "client", clientError) EXCEPT !.today = today]
        IN  /\ clients' = IF clientError THEN clients
                          ELSE [clients EXCEPT ![s.letter.client_id] =
                                    WebhookClientUpdateData(@, today)]
            /\ slots' = [slots EXCEPT ![r] = WebhookAfterClient(s)]
    /\ UNCHANGED <<env, letters, storage, issued>>

\* lines 187-228: the client's name is read and the message posted; a rejected
\* fetch is caught, a non-2xx answer is not looked at
WebhookNotify(r) ==
    /\ slots[r].kind = "webhook" /\ slots[r].pc = "notify"
    /\ \E outcome \in Outcomes(slots[r]) :
        slots' = [slots EXCEPT ![r] = WebhookOk(Called(slots[r], "slack", outcome # "ok"))]
    /\ UNCHANGED shared

-----------------------------------------------------------------------------
(* fetch-signed-document, both variants *)

FetchKinds == {"fetch", "fetchService"}

\* the bearer credential: absent, not resolvable to a user, a user outside the
\* firm's domain, a user of the firm
Credentials == {"none", "invalid", "outsider", "member"}

\* a letter id that names no letter
UnknownLetter == "Lx"

MemberFetchRequests == [auth : {"member"}, json : {TRUE}, letterId : Letters]
FetchRequests ==
    [auth : Credentials \ {"member"}, json : {TRUE}, letterId : {NoLetter}]
        \cup [auth : {"member"}, json : {FALSE}, letterId : {NoLetter}]
        \cup [auth : {"member"}, json : {TRUE}, letterId : {UnknownLetter, NoLetter}]
        \cup MemberFetchRequests

FetchEarlyResponseNoDomainCheck(req) ==
    IF req.auth = "none" THEN Response(401, "Missing authorization")
    ELSE IF req.auth = "invalid" THEN Response(401, "Unauthorized")
    ELSE IF ~req.json THEN Response(500, "SyntaxError")
    ELSE IF req.letterId = NoLetter THEN Response(400, "Missing letterId")
    ELSE NoResp

\* lines 14-53 of both variants
FetchEarlyResponse(req) ==
    IF req.auth = "none" THEN Response(401, "Missing authorization")
    ELSE IF req.auth = "invalid" THEN Response(401, "Unauthorized")
    ELSE IF req.auth = "outsider" THEN Response(403, "Forbidden")
    ELSE IF ~req.json THEN Response(500, "SyntaxError")
    ELSE IF req.letterId = NoLetter THEN Response(400, "Missing letterId")
    ELSE NoResp

FetchLetterResponseNoShortCircuit(kind, row) ==
    IF row.boldsign_document_id = NoDoc
        THEN Response(400, "No BoldSign document linked to this letter")
    ELSE IF kind = "fetch" /\ row.esign_status \notin {"completed", "signed"}
        THEN Response(400, "Document has not been signed yet")
    ELSE IF ~env.apiKey THEN Response(500, "BoldSign API key not configured")
    ELSE NoResp

FetchLetterResponseNoDocumentGuard(kind, row) ==
    IF row.signed_pdf_path # NoPath
        THEN [Response(200, "") EXCEPT !.path = row.signed_pdf_path, !.alreadyStored = TRUE]
    ELSE IF kind = "fetch" /\ row.esign_status \notin {"completed", "signed"}
        THEN Response(400, "Document has not been signed yet")
    ELSE IF ~env.apiKey THEN Response(500, "BoldSign API key not configured")
    ELSE NoResp

FetchLetterResponseNoStatusGuard(kind, row) ==
    IF row.signed_pdf_path # NoPath
        THEN [Response(200, "") EXCEPT !.path = row.signed_pdf_path, !.alreadyStored = TRUE]
    ELSE IF row.boldsign_document_id = NoDoc
        THEN Response(400, "No BoldSign document linked to this letter")
    ELSE IF ~env.apiKey THEN Response(500, "BoldSign API key not configured")
    ELSE NoResp

FetchLetterResponseStatusGuardInBoth(kind, row) ==
    IF row.signed_pdf_path # NoPath
        THEN [Response(200, "") EXCEPT !.path = row.signed_pdf_path, !.alreadyStored = TRUE]
    ELSE IF row.boldsign_document_id = NoDoc
        THEN Response(400, "No BoldSign document linked to this letter")
    ELSE IF row.esign_status \notin {"completed", "signed"}
        THEN Response(400, "Document has not been signed yet")
    ELSE IF ~env.apiKey THEN Response(500, "BoldSign API key not configured")
    ELSE NoResp

\* index.ts lines 69-97, part_001 lines 73-99: the response decided by the
\* letter's row, NoResp when the handler goes on to the download
FetchLetterResponse(kind, row) ==
    IF row.signed_pdf_path # NoPath
        THEN [Response(200, "") EXCEPT !.path = row.signed_pdf_path, !.alreadyStored = TRUE]
    ELSE IF row.boldsign_document_id = NoDoc
        THEN Response(400, "No BoldSign document linked to this letter")
    ELSE IF kind = "fetch" /\ row.esign_status \notin {"completed", "signed"}
        THEN Response(400, "Document has not been signed yet")
    ELSE IF ~env.apiKey THEN Response(500, "BoldSign API key not configured")
    ELSE NoResp

\* index.ts line 58, part_001 line 62: the columns selected
FetchSelected(id, row) ==
    [id |-> id, client_id |-> row.client_id,
     boldsign_document_id |-> row.boldsign_document_id,
     esign_status |-> row.esign_status, signed_pdf_path |-> row.signed_pdf_path]

\* index.ts lines 9-97, part_001 lines 9-99
FetchReceive(r, requests, budget) ==
    /\ Free(r)
    /\ \E kind \in FetchKinds, req \in requests :
        LET s == Started(kind, req, budget)
            early == FetchEarlyResponse(req)
        IN  IF early # NoResp
                THEN slots' = [slots EXCEPT ![r] = Answered(s, early)]
            ELSE \E letterError \in Errors(s) :
                LET sel == Called(s, "select", letterError)
                IN  IF letterError \/ req.letterId \notin Letters
                        THEN slots' = [slots EXCEPT ![r] =
                                Answered(sel, Response(404, "Letter not found"))]
                    ELSE LET row == letters[req.letterId]
                             got == [sel EXCEPT !.letter = FetchSelected(req.letterId, row)]
                             resp == FetchLetterResponse(kind, row)
                         IN  slots' = [slots EXCEPT ![r] =
                                IF resp # NoResp THEN Answered(got, resp)
                                ELSE [got EXCEPT !.pc = "download"]]
    /\ UNCHANGED shared

\* index.ts lines 99-113, part_001 lines 101-132; a rejected fetch lands in the
\* catch block; only part_001 looks at the length of the payload
FetchDownload(r) ==
    /\ slots[r].kind \in FetchKinds /\ slots[r].pc = "download"
    /\ \E outcome \in DownloadOutcomes(slots[r]) :
        LET s == Called(slots[r], "download", outcome # "ok")
        IN  slots' = [slots EXCEPT ![r] =
                IF outcome = "notok"
                    THEN Answered(s, Response(502, "Failed to download from BoldSign"))
                ELSE IF outcome = "throw" THEN Answered(s, Response(500, "TypeError"))
                ELSE IF s.kind = "fetchService" /\ outcome = "empty"
                    THEN Answered(s, Response(502, "BoldSign returned empty response"))
                ELSE [s EXCEPT !.pc = "upload",
                               !.bytes = IF outcome = "ok" THEN "pdf" ELSE "empty"]]
    /\ UNCHANGED shared

fetchStoragePathPerEndpoint(s) == <<s.letter.client_id, "/", s.letter.id, "_", s.kind, ".pdf">>

\* index.ts line 119, part_001 line 137
fetchStoragePath(s) == <<s.letter.client_id, "/", s.letter.id, "_signed.pdf">>

\* index.ts lines 115-132, part_001 lines 136-151
FetchUpload(r) ==
    /\ slots[r].kind \in FetchKinds /\ slots[r].pc = "upload"
    /\ \E uploadError \in Errors(slots[r]) :
        LET s == Called(slots[r], "upload", uploadError)
        IN  /\ storage' = IF uploadError THEN storage
                          ELSE Upsert(storage, fetchStoragePath(s), s.bytes)
            /\ slots' = [slots EXCEPT ![r] =
                    IF uploadError THEN Answered(s, Response(500, "Failed to store PDF"))
                    ELSE [s EXCEPT !.pc = "setpath"]]
    /\ UNCHANGED <<env, letters, clients, issued>>

FetchUpdateDataExecuted(row, s) ==
    [row EXCEPT !.signed_pdf_path = fetchStoragePath(s), !.esign_status = "completed",
                !.approval_status = "Executed"]

\* index.ts line 136, part_001 lines 154-157: the row after .update(...)
FetchUpdateData(row, s) ==
    IF s.kind = "fetchService" /\ s.letter.esign_status # "completed"
        THEN [row EXCEPT !.signed_pdf_path = fetchStoragePath(s),
                         !.esign_status = "completed"]
    ELSE [row EXCEPT !.signed_pdf_path = fetchStoragePath(s)]

\* index.ts lines 134-141, part_001 lines 153-170: a failed update is at most
\* logged
FetchStorePath(r) ==
    /\ slots[r].kind \in FetchKinds /\ slots[r].pc = "setpath"
    /\ \E updateError \in Errors(slots[r]) :
        LET s == Called(slots[r], "path", updateError)
        IN  /\ letters' = IF updateError THEN letters
                          ELSE [letters EXCEPT ![s.letter.id] = FetchUpdateData(@, s)]
            /\ slots' = [slots EXCEPT ![r] =
                    Answered(s, [Response(200, "") EXCEPT !.path = fetchStoragePath(s)])]
    /\ UNCHANGED <<env, clients, storage, issued>>

-----------------------------------------------------------------------------
(* send-for-esignature *)

\* the request: a body over MAX_BODY_SIZE or not, the credential, the payload
\* (one that passes lines 73-134, one that does not, one that is not JSON) and
\* the letterId and clientId fields ("" when absent)
ValidSendRequests ==
    [size : {"ok"}, auth : {"member"}, payload : {"valid"},
     letterId : Letters \cup {NoLetter}, clientId : Clients \cup {""}]
SendRequests ==
    [size : {"toolarge"}, auth : {"none"}, payload : {"valid"},
     letterId : {NoLetter}, clientId : {""}]
        \cup [size : {"ok"}, auth : Credentials \ {"member"}, payload : {"valid"},
              letterId : {NoLetter}, clientId : {""}]
        \cup [size : {"ok"}, auth : {"member"}, payload : {"invalid", "notjson"},
              letterId : {NoLetter}, clientId : {""}]
        \cup ValidSendRequests

SendEarlyResponseNoValidation(req) ==
    IF req.size = "toolarge" THEN Response(413, "Request too large")
    ELSE IF req.auth = "none" THEN Response(401, "Missing authorization")
    ELSE IF req.auth = "invalid" THEN Response(401, "Unauthorized")
    ELSE IF req.auth = "outsider" THEN Response(403, "Forbidden")
    ELSE IF ~env.apiKey THEN Response(500, "BoldSign API key not configured")
    ELSE IF req.payload = "notjson" THEN Response(500, "SyntaxError")
    ELSE NoResp

\* lines 23-134: the response given before the provider is called
SendEarlyResponse(req) ==
    IF req.size = "toolarge" THEN Response(413, "Request too large")
    ELSE IF req.auth = "none" THEN Response(401, "Missing authorization")
    ELSE IF req.auth = "invalid" THEN Response(401, "Unauthorized")
    ELSE IF req.auth = "outsider" THEN Response(403, "Forbidden")
    ELSE IF ~env.apiKey THEN Response(500, "BoldSign API key not configured")
    ELSE IF req.payload = "notjson" THEN Response(500, "SyntaxError")
    ELSE IF req.payload = "invalid" THEN Response(400, "Invalid payload")
    ELSE NoResp

\* line 249
SendOk(s) == Answered(s, [Response(200, "") EXCEPT !.documentId = s.letter.documentId])

SendAfterLetterStopOnError(s) ==
    IF "letter" \in s.failed THEN Answered(s, Response(500, "letter update failed"))
    ELSE IF s.req.clientId # "" THEN [s EXCEPT !.pc = "client"]
    ELSE Answered(s, [Response(200, "") EXCEPT !.documentId = s.letter.documentId])

\* line 238: what follows the letter update
SendAfterLetter(s) == IF s.req.clientId # "" THEN [s EXCEPT !.pc = "client"] ELSE SendOk(s)

\* line 227: what follows the provider's answer
SendAfterProvider(s) ==
    IF s.req.letterId # NoLetter /\ s.letter.documentId # NoDoc
        THEN [s EXCEPT !.pc = "letter"]
    ELSE SendAfterLetter(s)

\* lines 18-227: the provider hands out a fresh document id when it accepts
SendReceive(r, requests, budget) ==
    /\ Free(r)
    /\ \E req \in requests :
        LET s == Started("send", req, budget)
            early == SendEarlyResponse(req)
        IN  IF early # NoResp
                THEN /\ slots' = [slots EXCEPT ![r] = Answered(s, early)]
                     /\ UNCHANGED issued
            ELSE \E outcome \in Outcomes(s) :
                LET c == Called(s, "send", outcome # "ok")
                IN  IF outcome = "notok"
                        THEN /\ slots' = [slots EXCEPT ![r] =
                                    Answered(c, Response(502, "BoldSign API error"))]
                             /\ UNCHANGED issued
                    ELSE IF outcome = "throw"
                        THEN /\ slots' = [slots EXCEPT ![r] =
                                    Answered(c, Response(500, "TypeError"))]
                             /\ UNCHANGED issued
                    ELSE /\ issued < MaxDocs
                         /\ issued' = issued + 1
                         /\ slots' = [slots EXCEPT ![r] =
                                SendAfterProvider(
                                    [c EXCEPT !.letter = [documentId |-> issued + 1]])]
    /\ UNCHANGED <<env, letters, clients, storage>>

SendUpdateDataDocumentOnly(row, documentId) ==
    [row EXCEPT !.boldsign_document_id = documentId]

\* line 229: the row after .update({ boldsign_document_id, esign_status, approval_status })
SendUpdateData(row, documentId) ==
    [row EXCEPT !.boldsign_document_id = documentId, !.esign_status = "sent",
                !.approval_status = "Approved"]

\* lines 227-235
SendUpdateLetter(r) ==
    /\ slots[r].kind = "send" /\ slots[r].pc = "letter"
    /\ \E letterUpdateError \in Errors(slots[r]) :
        LET s == Called(slots[r], "letter", letterUpdateError)
        IN  /\ letters' = IF letterUpdateError \/ s.req.letterId \notin Letters THEN letters
                          ELSE [letters EXCEPT ![s.req.letterId] =
                                    SendUpdateData(@, s.letter.documentId)]
            /\ slots' = [slots EXCEPT ![r] = SendAfterLetter(s)]
    /\ UNCHANGED <<env, clients, storage, issued>>

\* line 241: the row after .update({ status: 'Letter Sent', letter_sent: today })
SendClientUpdateData(row, today) ==
    [row EXCEPT !.status = "Letter Sent", !.letter_sent = today]

\* lines 237-251
SendUpdateClient(r) ==
    /\ slots[r].kind = "send" /\ slots[r].pc = "client"
    /\ \E today \in Days, clientUpdateError \in Errors(slots[r]) :
        LET s == [Called(slots[r], "client", clientUpdateError) EXCEPT !.today = today]
        IN  /\ clients' = IF clientUpdateError \/ s.req.clientId \notin Clients THEN clients
                          ELSE [clients EXCEPT ![s.req.clientId] =
                                    SendClientUpdateData(@, today)]
            /\ slots' = [slots EXCEPT ![r] = SendOk(s)]
    /\ UNCHANGED <<env, letters, storage, issued>>

\* the response has left the function: nothing of the request remains
Close(r) ==
    /\ slots[r].pc = "done"
    /\ slots' = [slots EXCEPT ![r] = IdleSlot]
    /\ UNCHANGED shared

-----------------------------------------------------------------------------
(* The system *)

Environments == [webhookSecret : Secrets \cup {Unset}, apiKey : BOOLEAN, slackUrl : BOOLEAN]

\* the letter has been drafted and nothing sent
InitShared ==
    /\ env \in Environments
    /\ letters = [l \in Letters |-> NewLetter]
    /\ clients = [c \in Clients |-> NewClient]
    /\ storage = {}
    /\ issued = 0

\* one request at a time
Init == InitShared /\ slots = [r \in {"r1"} |-> IdleSlot]

Reconcile(r) ==
    \/ WebhookUpdateStatus(r)
    \/ WebhookDownload(r)
    \/ WebhookUpload(r)
    \/ WebhookStorePath(r)
    \/ WebhookUpdateClient(r)
    \/ WebhookNotify(r)
    \/ FetchDownload(r)
    \/ FetchUpload(r)
    \/ FetchStorePath(r)

Next ==
    \E r \in DOMAIN slots :
        \/ WebhookReceive(r, WebhookRequests, MaxFaults)
        \/ FetchReceive(r, FetchRequests, MaxFaults)
        \/ SendReceive(r, SendRequests, MaxFaults)
        \/ SendUpdateLetter(r)
        \/ SendUpdateClient(r)
        \/ Reconcile(r)
        \/ Close(r)

Spec == Init /\ [][Next]_vars

\* the steps of a request that is being handled: each awaited call returns or
\* throws, and the handler goes on
Proceed ==
    \E r \in DOMAIN slots : SendUpdateLetter(r) \/ SendUpdateClient(r) \/ Reconcile(r)

SpecLive == Init /\ [][Next]_vars /\ WF_vars(Proceed)

\* a letter as send-for-esignature leaves it (line 229) and its client (line 241)
SentLetter ==
    [NewLetter EXCEPT !.boldsign_document_id = 1, !.esign_status = "sent",
                      !.approval_status = "Approved"]
SentClient == [NewClient EXCEPT !.status = "Letter Sent", !.letter_sent = 1]

\* the provider's deliveries for the letter's document
PairWebhookRequests == {q \in SignedRequests : q.body \in EventBodies /\ q.body.documentId = 1}

\* two requests, each a provider delivery or a fetch by a member of the firm,
\* meet a letter that was sent and has no signed document stored; the provider
\* may already have reported other events
InitPair ==
    /\ env \in Environments
    /\ \E st \in {"sent", "viewed", "signed"} :
            letters = [l \in Letters |-> [SentLetter EXCEPT !.esign_status = st]]
    /\ clients = [c \in Clients |-> SentClient]
    /\ storage = {}
    /\ issued = 1
    /\ slots = [r \in {"r1", "r2"} |-> IdleSlot]

NextPair ==
    \E r \in DOMAIN slots :
        \/ WebhookReceive(r, PairWebhookRequests, MaxFaults)
        \/ FetchReceive(r, MemberFetchRequests, MaxFaults)
        \/ Reconcile(r)

SpecPair == InitPair /\ [][NextPair]_vars

-----------------------------------------------------------------------------
(* Properties *)

\* a webhook request that has been answered
WebhookDone(r) == slots[r].kind = "webhook" /\ slots[r].pc = "done"

\* a fetch request, of either variant, that has been answered
FetchDone(r) == slots[r].kind \in FetchKinds /\ slots[r].pc = "done"

\* the storage key of a letter's signed document
SignedKey(l) == <<letters[l].client_id, "/", l, "_signed.pdf">>

\* the calls on the tables and the bucket
StoreCalls == {"select", "status", "upload", "path", "client", "letter"}

\* a Completed delivery that was answered after its letter had been found
CompletedDone(r) ==
    /\ WebhookDone(r)
    /\ slots[r].req.body.eventType = "Completed"
    /\ "status" \in slots[r].calls

\* C1: with a webhook secret configured, a POST whose signature header is
\* absent or is not the base64 HMAC-SHA256 of the raw body under that secret
\* is answered 401 in the step that receives it, without a call on any table,
\* the bucket or the provider, and with every table and the bucket unchanged.
C1_SignatureGating ==
    [][\A r \in DOMAIN slots :
        (/\ slots[r].pc = "idle"
         /\ slots'[r].kind = "webhook"
         /\ slots'[r].req.method = "POST"
         /\ env.webhookSecret # Unset
         /\ slots'[r].req.sig # Btoa(HmacSha256(env.webhookSecret, slots'[r].req.body)))
        => (/\ slots'[r].pc = "done"
            /\ slots'[r].resp.status = 401
            /\ slots'[r].calls = {}
            /\ UNCHANGED shared)]_vars

\* C1 witness: a Completed delivery for the document of a sent letter, signed
\* with another key, has been answered 401.
C1_Witness ==
    \E r \in DOMAIN slots :
        /\ WebhookDone(r)
        /\ env.webhookSecret # Unset
        /\ slots[r].req.method = "POST"
        /\ slots[r].req.body.eventType = "Completed"
        /\ slots[r].req.sig = Btoa(HmacSha256("k2", slots[r].req.body))
        /\ FindByDocumentId(slots[r].req.body.documentId) # {}
        /\ slots[r].resp.status = 401

\* the status each handled event stands for (spec section 3)
EventStatus ==
    [Sent |-> "sent", Viewed |-> "viewed", Signed |-> "signed", Completed |-> "completed",
     Declined |-> "declined", Expired |-> "expired", Revoked |-> "revoked"]

\* C2: a status update of the webhook that succeeds leaves the letter's
\* signatureStatus at the status of the event being handled, whatever the
\* status was before: the last event handled wins.
C2_LastWriteWins ==
    [][\A r \in DOMAIN slots :
        (/\ slots[r].kind = "webhook"
         /\ slots[r].pc = "update"
         /\ slots'[r].pc # "update"
         /\ "status" \notin slots'[r].failed)
        => letters'[slots[r].letter.id].esign_status
                = EventStatus[slots[r].req.body.eventType]]_vars

\* C2 witness: Viewed was handled after Completed and the letter ends viewed.
C2_Witness ==
    \E r \in DOMAIN slots :
        /\ WebhookDone(r)
        /\ slots[r].req.body.eventType = "Viewed"
        /\ "status" \in slots[r].calls \ slots[r].failed
        /\ letters[slots[r].letter.id].approval_status = "Executed"
        /\ letters[slots[r].letter.id].esign_status = "viewed"

\* C3: once a letter's signatureStatus is completed, no step of a webhook
\* request changes it.
C3_CompletedNeverRegressed ==
    [][\A r \in DOMAIN slots :
        (/\ slots[r].kind = "webhook"
         /\ slots[r].pc = "update"
         /\ letters[slots[r].letter.id].esign_status = "completed")
        => letters'[slots[r].letter.id].esign_status = "completed"]_vars

C5_WebhookShortCircuits ==
    [][\A r \in DOMAIN slots :
        (/\ slots[r].kind = "webhook"
         /\ slots[r].pc \in {"download", "upload"}
         /\ letters[slots[r].letter.id].signed_pdf_path # NoPath)
        => slots'[r].calls \cap {"download", "upload"} \subseteq slots[r].calls]_vars

\* C6 as stated, taken with the provider API key configured: a Completed
\* delivery and a fetch for the same letter, in any interleaving and with no
\* failed call, are both answered 200 and leave the letter with the one
\* deterministic path.
C6_ConcurrentPushPull ==
    \A a, b \in DOMAIN slots :
        (/\ CompletedDone(a)
         /\ FetchDone(b)
         /\ slots[a].failed = {}
         /\ slots[b].failed = {}
         /\ env.apiKey)
        => (/\ slots[a].resp.status = 200
            /\ slots[b].resp.status = 200
            /\ letters[slots[a].letter.id].signed_pdf_path = SignedKey(slots[a].letter.id))

\* C6: the same holds when the provider API key is configured and the fetch
\* is the service-level variant or read the letter as signed or completed;
\* the path answered and recorded is the deterministic key, under which the
\* bucket holds its only object.
C6_ConcurrentPushPullEligible ==
    \A a, b \in DOMAIN slots :
        (/\ CompletedDone(a)
         /\ FetchDone(b)
         /\ slots[a].failed = {}
         /\ slots[b].failed = {}
         /\ env.apiKey
         /\ (slots[b].kind = "fetchService"
                \/ slots[b].letter.esign_status \in {"signed", "completed"}))
        => (/\ slots[a].resp.status = 200
            /\ slots[b].resp.status = 200
            /\ slots[b].resp.path = SignedKey(slots[a].letter.id)
            /\ letters[slots[a].letter.id].signed_pdf_path = SignedKey(slots[a].letter.id)
            /\ {o[1] : o \in storage} = {SignedKey(slots[a].letter.id)})

\* C6 witness: both requests downloaded and uploaded the document and both
\* were answered 200.
C6_Witness ==
    \E a, b \in DOMAIN slots :
        /\ CompletedDone(a) /\ FetchDone(b)
        /\ slots[a].failed = {} /\ slots[b].failed = {}
        /\ {"download", "upload", "path"} \subseteq slots[a].calls
        /\ {"download", "upload", "path"} \subseteq slots[b].calls
        /\ slots[a].resp.status = 200 /\ slots[b].resp.status = 200

\* C7: a letter's storedArtifactPath is null or the key made of its client id
\* and its own id, and the bucket holds at most one object for the letter,
\* under that key.
C7_DeterministicPath ==
    /\ \A l \in Letters : letters[l].signed_pdf_path \in {NoPath, SignedKey(l)}
    /\ \A o \in storage : \E l \in Letters : o[1] = SignedKey(l)
    /\ \A l \in Letters : Cardinality({o \in storage : o[1] = SignedKey(l)}) <= 1

\* C7 witness: a fetch has uploaded the document and recorded its path; the
\* bucket holds the one object.
C7_Witness ==
    \E r \in DOMAIN slots :
        /\ FetchDone(r)
        /\ {"upload", "path"} \subseteq slots[r].calls \ slots[r].failed
        /\ Cardinality(storage) = 1
        /\ letters[slots[r].letter.id].signed_pdf_path = SignedKey(slots[r].letter.id)

\* C8 as stated: a Completed delivery for a known letter, no call on a table
\* or the bucket failing, leaves the letter completed and Executed, the client
\* Executed with letterExecuted the day of processing, and has made one
\* notification attempt.
C8_CompletedEffects ==
    \A r \in DOMAIN slots :
        (CompletedDone(r) /\ slots[r].failed \cap StoreCalls = {})
        => (/\ letters[slots[r].letter.id].esign_status = "completed"
            /\ letters[slots[r].letter.id].approval_status = "Executed"
            /\ clients[slots[r].letter.client_id].status = "Executed"
            /\ slots[r].today \in Days
            /\ clients[slots[r].letter.client_id].letter_executed = slots[r].today
            /\ "slack" \in slots[r].calls)

\* C8: the same, the notification attempt being made exactly when a Slack
\* webhook URL is configured.
C8_CompletedEffectsNotifyIfConfigured ==
    \A r \in DOMAIN slots :
        (CompletedDone(r) /\ slots[r].failed \cap StoreCalls = {})
        => (/\ letters[slots[r].letter.id].esign_status = "completed"
            /\ letters[slots[r].letter.id].approval_status = "Executed"
            /\ clients[slots[r].letter.client_id].status = "Executed"
            /\ slots[r].today \in Days
            /\ clients[slots[r].letter.client_id].letter_executed = slots[r].today
            /\ ("slack" \in slots[r].calls <=> env.slackUrl))

\* C8 witness: a Completed delivery has been handled with no failure, the
\* document stored and the notification sent.
C8_Witness ==
    \E r \in DOMAIN slots :
        /\ CompletedDone(r)
        /\ slots[r].failed = {}
        /\ slots[r].calls = {"select", "status", "download", "upload", "path", "client", "slack"}
        /\ clients[slots[r].letter.client_id].letter_executed = slots[r].today

\* C9: a Completed delivery for a known letter is answered 200 having attempted
\* the status update and the client update, the retrieval exactly when the API
\* key is configured and the notification exactly when the Slack URL is,
\* whichever of its calls failed.
C9_IndependentEffects ==
    \A r \in DOMAIN slots :
        CompletedDone(r)
        => (/\ slots[r].resp.status = 200
            /\ {"status", "client"} \subseteq slots[r].calls
            /\ ("download" \in slots[r].calls <=> env.apiKey)
            /\ ("slack" \in slots[r].calls <=> env.slackUrl))

\* C9 witness: the client update failed, the retrieval and the notification
\* were made all the same and the answer was 200.
C9_Witness ==
    \E r \in DOMAIN slots :
        /\ CompletedDone(r)
        /\ "client" \in slots[r].failed
        /\ {"download", "upload", "path", "slack"} \subseteq slots[r].calls
        /\ slots[r].resp.status = 200

\* the signature check of lines 59-76 rejects the request
Rejected(req) ==
    /\ env.webhookSecret # Unset
    /\ req.sig # Btoa(HmacSha256(env.webhookSecret, req.body))

Verified(req) == req.method = "POST" /\ ~Rejected(req) /\ req.body.json

\* slot r takes up a request of the given kind in this step
Receives(r, kinds) == slots[r].pc = "idle" /\ slots'[r].kind \in kinds

\* C11: a verified delivery whose event type is not one of the seven handled
\* types, or that lacks an event type or a document id, is answered 200 in
\* the step that receives it, with no lookup, download or notification made
\* and every table and the bucket unchanged.
C11_UnhandledAcknowledged ==
    [][\A r \in DOMAIN slots :
        (/\ Receives(r, {"webhook"})
         /\ Verified(slots'[r].req)
         /\ \/ slots'[r].req.body.eventType \notin HANDLED_EVENTS
            \/ slots'[r].req.body.documentId = NoDoc)
        => (/\ slots'[r].pc = "done"
            /\ slots'[r].resp.status = 200
            /\ slots'[r].calls = {}
            /\ UNCHANGED shared)]_vars

\* C11 witness: an event of a type that is not handled, for the document of a
\* letter that is out for signature, has been acknowledged.
C11_Witness ==
    \E r \in DOMAIN slots :
        /\ WebhookDone(r)
        /\ Verified(slots[r].req)
        /\ slots[r].req.body.eventType = "Reassigned"
        /\ FindByDocumentId(slots[r].req.body.documentId) # {}
        /\ slots[r].resp.status = 200
        /\ slots[r].calls = {}

\* C12: a verified delivery of a handled type whose document id matches no
\* letter, or whose lookup returns an error, is answered 200 in the step that
\* receives it, having made the lookup only, with every table and the bucket
\* unchanged.
C12_UnknownDocumentAcknowledged ==
    [][\A r \in DOMAIN slots :
        (/\ Receives(r, {"webhook"})
         /\ Verified(slots'[r].req)
         /\ slots'[r].req.body \in EventBodies
         /\ \/ \A l \in Letters :
                    letters[l].boldsign_document_id # slots'[r].req.body.documentId
            \/ "select" \in slots'[r].failed)
        => (/\ slots'[r].pc = "done"
            /\ slots'[r].resp.status = 200
            /\ slots'[r].calls = {"select"}
            /\ UNCHANGED shared)]_vars

\* C12 witness: a Completed delivery for a document id that no letter carries
\* has been acknowledged while a letter is out for signature under another id.
C12_Witness ==
    \E r \in DOMAIN slots :
        /\ WebhookDone(r)
        /\ slots[r].req.body.eventType = "Completed"
        /\ slots[r].calls = {"select"}
        /\ slots[r].failed = {}
        /\ slots[r].resp.status = 200
        /\ \E l \in Letters :
                letters[l].boldsign_document_id \notin {NoDoc, slots[r].req.body.documentId}

\* a fetch by a member of the firm for a letter, whose lookup succeeds
FetchesLetter(r, l) ==
    /\ Receives(r, FetchKinds)
    /\ slots'[r].req = [auth |-> "member", json |-> TRUE, letterId |-> l]
    /\ "select" \notin slots'[r].failed

\* C13: a fetch, of either variant, for a letter with no stored path and no
\* provider document id is answered 400 with the error of the document id
\* guard, which no other refusal carries, makes no call but the lookup, and
\* leaves every table and the bucket unchanged.
C13_MissingDocumentIdGuard ==
    [][\A r \in DOMAIN slots :
        /\ \A l \in Letters :
            (/\ FetchesLetter(r, l)
             /\ letters[l].signed_pdf_path = NoPath
             /\ letters[l].boldsign_document_id = NoDoc)
            => (/\ slots'[r].pc = "done"
                /\ slots'[r].resp.status = 400
                /\ slots'[r].resp.msg = "No BoldSign document linked to this letter"
                /\ slots'[r].calls = {"select"}
                /\ UNCHANGED shared)
        /\ (/\ Receives(r, FetchKinds)
            /\ slots'[r].resp.msg = "No BoldSign document linked to this letter")
            => (/\ slots'[r].req.letterId \in Letters
                /\ letters[slots'[r].req.letterId].boldsign_document_id = NoDoc)]_vars

\* C13 witness: a fetch for a letter that was never sent has been refused by
\* the document id guard.
C13_Witness ==
    \E r \in DOMAIN slots :
        /\ FetchDone(r)
        /\ slots[r].resp.status = 400
        /\ slots[r].resp.msg = "No BoldSign document linked to this letter"
        /\ slots[r].calls = {"select"}
        /\ slots[r].letter.boldsign_document_id = NoDoc

\* the download of a webhook request got a non-2xx answer or was rejected
RetrievalDownloadFailed(r) == "download" \in slots[r].failed /\ slots[r].bytes = ""

\* C14: in the webhook, the status update is made before retrieval starts; a
\* Completed delivery whose download or upload failed is answered 200, has
\* made no write of the stored path, and, its status update having succeeded,
\* leaves the letter completed and Executed.
C14_RetrievalFailureKeepsStatus ==
    \A r \in DOMAIN slots :
        /\ (slots[r].kind = "webhook" /\ slots[r].pc \in {"download", "upload", "setpath"})
            => "status" \in slots[r].calls
        /\ (CompletedDone(r) /\ (RetrievalDownloadFailed(r) \/ "upload" \in slots[r].failed))
            => (/\ slots[r].resp.status = 200
                /\ "path" \notin slots[r].calls
                /\ "status" \notin slots[r].failed
                    => (/\ letters[slots[r].letter.id].esign_status = "completed"
                        /\ letters[slots[r].letter.id].approval_status = "Executed"))

\* C14 witness: the upload of a Completed delivery failed; the letter is
\* completed and Executed with no stored path, and the answer was 200.
C14_Witness ==
    \E r \in DOMAIN slots :
        /\ CompletedDone(r)
        /\ "upload" \in slots[r].failed
        /\ letters[slots[r].letter.id].esign_status = "completed"
        /\ letters[slots[r].letter.id].approval_status = "Executed"
        /\ letters[slots[r].letter.id].signed_pdf_path = NoPath
        /\ slots[r].resp.status = 200

\* C15: once a letter's provider document id is set, no step changes it.
C15_DocumentIdSetOnce ==
    [][\A l \in Letters :
        letters[l].boldsign_document_id # NoDoc
        => letters'[l].boldsign_document_id = letters[l].boldsign_document_id]_vars

\* C16: once a letter's stored path is set, no step of a webhook or fetch
\* request changes it, and a fetch for the letter received from then on whose
\* lookup succeeds is answered 200 with that path and alreadyStored, having
\* made no call but the lookup.
C16_StoredPathImmutable ==
    [][\A l \in Letters :
        letters[l].signed_pdf_path # NoPath
        => (/\ letters'[l].signed_pdf_path = letters[l].signed_pdf_path
            /\ \A r \in DOMAIN slots :
                FetchesLetter(r, l)
                => (/\ slots'[r].pc = "done"
                    /\ slots'[r].resp.status = 200
                    /\ slots'[r].resp.alreadyStored
                    /\ slots'[r].resp.path = letters[l].signed_pdf_path
                    /\ slots'[r].calls = {"select"}))]_vars

\* C16 witness: a Completed delivery stored the document and recorded its
\* path; a fetch received afterwards was answered from the record.
C16_Witness ==
    \E a, b \in DOMAIN slots :
        /\ CompletedDone(a)
        /\ "path" \in slots[a].calls \ slots[a].failed
        /\ FetchDone(b)
        /\ slots[b].resp.alreadyStored
        /\ slots[b].resp.path = letters[slots[a].letter.id].signed_pdf_path
        /\ slots[b].calls = {"select"}

FetchDownloadFailed(r) == "download" \in slots[r].failed /\ slots[r].bytes = ""

\* C18: a fetch whose download failed is answered 502, one whose upload
\* failed is answered 500, and in both cases the row of the letter is as the
\* fetch read it.
C18_FetchFailureStatuses ==
    \A r \in DOMAIN slots :
        (FetchDone(r) /\ (FetchDownloadFailed(r) \/ "upload" \in slots[r].failed))
        => (/\ FetchDownloadFailed(r) => slots[r].resp.status = 502
            /\ "upload" \in slots[r].failed => slots[r].resp.status = 500
            /\ "path" \notin slots[r].calls
            /\ letters[slots[r].letter.id].signed_pdf_path = NoPath
            /\ letters[slots[r].letter.id].esign_status = slots[r].letter.esign_status)

\* C19: a fetch with no credential or one that resolves to no user is answered
\* 401, one from a user outside the firm's domain 403, one from a member for
\* an unknown letter id 404; the first two read no letter, none makes a call
\* beyond the lookup, and every table and the bucket are unchanged.
C19_FetchAuthorization ==
    [][\A r \in DOMAIN slots :
        Receives(r, FetchKinds)
        => (/\ slots'[r].req.auth \in {"none", "invalid"}
                => (/\ slots'[r].pc = "done" /\ slots'[r].resp.status = 401
                    /\ slots'[r].calls = {} /\ UNCHANGED shared)
            /\ slots'[r].req.auth = "outsider"
                => (/\ slots'[r].pc = "done" /\ slots'[r].resp.status = 403
                    /\ slots'[r].calls = {} /\ UNCHANGED shared)
            /\ (/\ slots'[r].req.auth = "member"
                /\ slots'[r].req.json
                /\ slots'[r].req.letterId \notin Letters \cup {NoLetter})
                => (/\ slots'[r].pc = "done" /\ slots'[r].resp.status = 404
                    /\ slots'[r].calls = {"select"} /\ UNCHANGED shared)
            /\ "select" \in slots'[r].calls => slots'[r].req.auth = "member")]_vars

\* C19 witness: a fetch from outside the firm's domain has been answered 403
\* while a signed document is stored for the letter.
C19_Witness ==
    \E r \in DOMAIN slots :
        /\ FetchDone(r)
        /\ slots[r].req.auth = "outsider"
        /\ slots[r].resp.status = 403
        /\ slots[r].calls = {}
        /\ \E l \in Letters : letters[l].signed_pdf_path # NoPath

\* a send request that named a letter and a client and was answered 200
SendDone(r) ==
    /\ slots[r].kind = "send" /\ slots[r].pc = "done"
    /\ slots[r].resp.status = 200
    /\ slots[r].req.letterId \in Letters
    /\ slots[r].req.clientId \in Clients

C21_NotificationBestEffort ==
    [][\A r \in DOMAIN slots :
        /\ (slots[r].kind = "webhook" /\ slots[r].pc = "client" /\ ~env.slackUrl)
            => (/\ slots'[r].pc = "done"
                /\ slots'[r].resp.status = 200
                /\ "slack" \notin slots'[r].calls)
        /\ (slots[r].kind = "webhook" /\ slots[r].pc = "notify")
            => (/\ slots'[r].pc = "done"
                /\ slots'[r].resp.status = 200
                /\ "slack" \in slots'[r].calls
                /\ UNCHANGED shared)]_vars

\* C21 witness: the notification of a Completed delivery failed; the letter
\* is completed and Executed, the client Executed, and the answer was 200.
C21_Witness ==
    \E r \in DOMAIN slots :
        /\ CompletedDone(r)
        /\ "slack" \in slots[r].failed
        /\ letters[slots[r].letter.id].approval_status = "Executed"
        /\ clients[slots[r].letter.client_id].status = "Executed"
        /\ clients[slots[r].letter.client_id].letter_executed = slots[r].today
        /\ slots[r].resp.status = 200

\* a request is being handled and has not been answered
InFlight == \E r \in DOMAIN slots : slots[r].pc \notin {"idle", "done"}

C23_RedeliveryIdempotent ==
    [][\A a, b \in DOMAIN slots :
        (/\ a # b
         /\ WebhookDone(a)
         /\ "status" \in slots[a].calls
         /\ slots[a].failed = {}
         /\ slots[b].kind = "webhook"
         /\ slots[b].req = slots[a].req
         /\ slots'[b].failed = {}
         /\ slots'[b].today \in {NoDate, slots[a].today})
        => (letters' = letters /\ clients' = clients)]_vars

\* C23 witness: a Completed delivery and its redelivery have both been
\* handled with no failure, each storing the document and updating the client.
C23_Witness ==
    \E a, b \in DOMAIN slots :
        /\ a # b
        /\ CompletedDone(a) /\ CompletedDone(b)
        /\ slots[a].req = slots[b].req
        /\ slots[a].failed = {} /\ slots[b].failed = {}
        /\ {"status", "path", "client"} \subseteq slots[a].calls \cap slots[b].calls
        /\ slots[a].today = slots[b].today

\* C24: once a letter's status is declined, expired or revoked, no step of a
\* webhook or fetch request changes it.
C24_TerminalStatuses ==
    [][\A r \in DOMAIN slots, l \in Letters :
        (/\ slots[r].kind \in {"webhook"} \cup FetchKinds
         /\ letters[l].esign_status \in {"declined", "expired", "revoked"})
        => letters'[l].esign_status = letters[l].esign_status]_vars

\* C25: a step that makes a letter's approvalStatus Executed is the status
\* update of a Completed delivery for that letter, and it leaves the letter
\* completed.
C25_ExecutedOnlyOnCompletion ==
    [][\A l \in Letters :
        (letters[l].approval_status # "Executed" /\ letters'[l].approval_status = "Executed")
        => (/\ letters'[l].esign_status = "completed"
            /\ \E r \in DOMAIN slots :
                /\ slots[r].kind = "webhook"
                /\ slots[r].pc = "update"
                /\ slots[r].req.body.eventType = "Completed"
                /\ slots[r].letter.id = l)]_vars

\* C25 witness: a Completed delivery has updated the letter, which is
\* completed and Executed, and recorded the stored path, with no Slack URL
\* configured.
C25_Witness ==
    \E r \in DOMAIN slots :
        /\ CompletedDone(r)
        /\ {"status", "path"} \subseteq slots[r].calls \ slots[r].failed
        /\ "slack" \notin slots[r].calls
        /\ letters[slots[r].letter.id].approval_status = "Executed"
        /\ letters[slots[r].letter.id].esign_status = "completed"
        /\ letters[slots[r].letter.id].signed_pdf_path # NoPath

\* a fetch that read the letter's row and found it eligible for its variant
FetchEligible(r) ==
    /\ FetchDone(r)
    /\ "select" \in slots[r].calls \ slots[r].failed
    /\ slots[r].req.letterId \in Letters
    /\ slots[r].letter.boldsign_document_id # NoDoc
    /\ slots[r].kind = "fetch" => slots[r].letter.esign_status \in {"signed", "completed"}

\* C26 as stated: two fetches for the same eligible letter, run concurrently
\* with no failed call, are both answered 200 with the same path, and leave
\* one object in the bucket and its key on the letter.
C26_ConcurrentFetches ==
    \A a, b \in DOMAIN slots :
        (/\ a # b
         /\ FetchEligible(a) /\ FetchEligible(b)
         /\ slots[a].req.letterId = slots[b].req.letterId
         /\ slots[a].failed = {} /\ slots[b].failed = {})
        => (/\ slots[a].resp.status = 200
            /\ slots[b].resp.status = 200
            /\ slots[a].resp.path = slots[b].resp.path
            /\ letters[slots[a].req.letterId].signed_pdf_path = slots[a].resp.path
            /\ {o[1] : o \in storage} = {slots[a].resp.path})

\* C26: the same, with the provider API key configured: the path answered is
\* the deterministic key.
C26_ConcurrentFetchesWithApiKey ==
    \A a, b \in DOMAIN slots :
        (/\ a # b
         /\ FetchEligible(a) /\ FetchEligible(b)
         /\ slots[a].req.letterId = slots[b].req.letterId
         /\ slots[a].failed = {} /\ slots[b].failed = {}
         /\ env.apiKey)
        => (/\ slots[a].resp.status = 200
            /\ slots[b].resp.status = 200
            /\ slots[a].resp.path = SignedKey(slots[a].req.letterId)
            /\ slots[b].resp.path = SignedKey(slots[a].req.letterId)
            /\ letters[slots[a].req.letterId].signed_pdf_path
                    = SignedKey(slots[a].req.letterId)
            /\ Cardinality(storage) = 1
            /\ {o[1] : o \in storage} = {SignedKey(slots[a].req.letterId)})

\* C26 witness: a status-checking fetch and a service-level fetch have each
\* downloaded and uploaded the document and were both answered 200.
C26_Witness ==
    \E a, b \in DOMAIN slots :
        /\ FetchEligible(a) /\ FetchEligible(b)
        /\ slots[a].kind = "fetch" /\ slots[b].kind = "fetchService"
        /\ slots[a].failed = {} /\ slots[b].failed = {}
        /\ slots[a].calls = {"select", "download", "upload", "path"}
        /\ slots[b].calls = {"select", "download", "upload", "path"}
        /\ slots[a].resp.status = 200 /\ slots[b].resp.status = 200

\* C27: with no webhook secret configured a POST is never answered 401 and is
\* handled by its body alone, whatever its signature header: 500 when the body
\* is not JSON, the 200 acknowledgment with no call when the payload is not of
\* a handled type or lacks a field, and otherwise the lookup, followed by the
\* status update when the letter is found.
C27_NoSecretSkipsVerification ==
    [][\A r \in DOMAIN slots :
        (/\ Receives(r, {"webhook"})
         /\ slots'[r].req.method = "POST"
         /\ env.webhookSecret = Unset)
        => (/\ slots'[r].resp.status # 401
            /\ ~slots'[r].req.body.json
                => (slots'[r].pc = "done" /\ slots'[r].resp.status = 500)
            /\ (slots'[r].req.body.json /\ slots'[r].req.body \notin EventBodies)
                => (/\ slots'[r].pc = "done" /\ slots'[r].resp.status = 200
                    /\ slots'[r].calls = {})
            /\ slots'[r].req.body \in EventBodies
                => (/\ slots'[r].calls = {"select"}
                    /\ slots'[r].pc = "update"
                        <=> (/\ slots'[r].failed = {}
                             /\ \E l \in Letters : letters[l].boldsign_document_id
                                                        = slots'[r].req.body.documentId)))]_vars

\* C27 witness: with no secret configured, a Completed delivery carrying a
\* signature made with another key has been handled and the letter updated.
C27_Witness ==
    \E r \in DOMAIN slots :
        /\ CompletedDone(r)
        /\ env.webhookSecret = Unset
        /\ slots[r].req.sig = Btoa(HmacSha256("k2", slots[r].req.body))
        /\ "status" \notin slots[r].failed
        /\ slots[r].resp.status = 200

\* C28: a request whose download returned an empty payload makes no upload
\* and no write of the stored path, a fetch among them is not answered 200,
\* and the bucket holds no empty object.
C28_EmptyPayloadIsFailure ==
    /\ \A o \in storage : o[2] # "empty"
    /\ \A r \in DOMAIN slots :
        ("download" \in slots[r].failed /\ slots[r].bytes = "empty")
        => (/\ slots[r].calls \cap {"upload", "path"} = {}
            /\ FetchDone(r) => slots[r].resp.status # 200)

\* C29: a fetch that downloaded and uploaded and made its update of the
\* letter's row, no call failing, leaves the letter with the stored path and
\* completed.
C29_FetchLeavesCompleted ==
    \A r \in DOMAIN slots :
        (/\ FetchDone(r)
         /\ slots[r].calls = {"select", "download", "upload", "path"}
         /\ slots[r].failed = {})
        => (/\ letters[slots[r].letter.id].signed_pdf_path = SignedKey(slots[r].letter.id)
            /\ letters[slots[r].letter.id].esign_status = "completed")

\* a service-level fetch by a member for a letter that has a provider
\* document id and no stored path, whose lookup succeeds
ServiceFetchesSent(r, l) ==
    /\ FetchesLetter(r, l)
    /\ slots'[r].kind = "fetchService"
    /\ letters[l].boldsign_document_id # NoDoc
    /\ letters[l].signed_pdf_path = NoPath

\* C30 as stated: the service-level fetch for a letter with a provider
\* document id and no stored path goes on to the download whatever the
\* letter's status, and is not answered 400.
C30_ServiceFetchIgnoresStatus ==
    [][\A r \in DOMAIN slots, l \in Letters :
        ServiceFetchesSent(r, l)
        => (slots'[r].pc = "download" /\ slots'[r].resp.status # 400)]_vars

\* C30: the same when the provider API key is configured; when it is not the
\* fetch is answered 500, whatever the letter's status, and never 400.
C30_ServiceFetchIgnoresStatusGivenApiKey ==
    [][\A r \in DOMAIN slots, l \in Letters :
        ServiceFetchesSent(r, l)
        => IF env.apiKey
              THEN slots'[r].pc = "download" /\ slots'[r].resp = NoResp
              ELSE slots'[r].pc = "done" /\ slots'[r].resp.status = 500]_vars

\* C30 witness: a service-level fetch for a declined letter has made the
\* download.
C30_Witness ==
    \E r \in DOMAIN slots :
        /\ slots[r].kind = "fetchService"
        /\ "download" \in slots[r].calls
        /\ slots[r].letter.esign_status = "declined"
        /\ slots[r].letter.signed_pdf_path = NoPath

\* the place of a step in its handler: the steps of one request are taken in
\* this order
StepRank(pc) ==
    CASE pc = "idle" -> 0
      [] pc \in {"update", "letter"} -> 1
      [] pc = "download" -> 2
      [] pc = "upload" -> 3
      [] pc = "setpath" -> 4
      [] pc = "client" -> 5
      [] pc = "notify" -> 6
      [] OTHER -> 7

\* the provider download, the bucket write and the notification, with the
\* step that makes each
ExternalCalls == {<<"download", "download">>, <<"upload", "upload">>, <<"slack", "notify">>}

\* C31: within one request the download, the upload and the notification are
\* each made at most once and never again after failing: each is made only
\* by its own step, that step is taken only when the call has not been made
\* yet, every step of a handler moves it strictly forward, the bucket is
\* written only by the upload step, and a request that makes the upload has
\* made exactly the one download before it.
C31_NoRetry ==
    [][\A r \in DOMAIN slots :
        LET s == slots[r]
            t == slots'[r]
        IN  (s.pc \notin {"idle", "done"} /\ t # s) =>
                /\ t.kind = s.kind
                /\ StepRank(t.pc) > StepRank(s.pc)
                /\ s.calls \subseteq t.calls /\ s.failed \subseteq t.failed
                /\ Cardinality(t.calls \ s.calls) <= 1
                /\ \A c \in ExternalCalls :
                        /\ (c[1] \in t.calls \ s.calls) <=> (s.pc = c[2])
                        /\ s.pc = c[2] => c[1] \notin s.calls
                /\ s.pc = "upload" => "download" \in s.calls \ {"upload"}
                /\ storage' # storage => s.pc = "upload"]_vars

C31_Witness ==
    \E r \in DOMAIN slots :
        /\ FetchDone(r)
        /\ slots[r].calls = {"select", "download", "upload"}
        /\ slots[r].failed = {"upload"}
        /\ slots[r].resp.status = 500
        /\ storage = {}

\* the handled events other than Completed
StatusOnlyEvents == HANDLED_EVENTS \ {"Completed"}

\* C32: while the webhook handles a verified Sent, Viewed, Signed, Declined,
\* Expired or Revoked event for a known letter, every step of the request
\* leaves the client table, the bucket and the document ids as they are,
\* changes no letter but the one found and on it nothing but esign_status, and
\* the request makes the lookup and the status update and no other call: no
\* download, no upload, no path write, no client update, no notification.
C32_StatusOnlyEvents ==
    [][\A r \in DOMAIN slots :
        LET t == slots'[r]
        IN  (/\ t # slots[r]
             /\ t.kind = "webhook"
             /\ Verified(t.req)
             /\ t.req.body.eventType \in StatusOnlyEvents
             /\ (t.pc = "update" \/ "status" \in t.calls)) =>
                /\ UNCHANGED <<clients, storage, issued>>
                /\ \A l \in Letters :
                        /\ l # t.letter.id => letters'[l] = letters[l]
                        /\ letters'[l] = [letters[l] EXCEPT !.esign_status = letters'[l].esign_status]
                /\ t.calls \subseteq {"select", "status"}
                /\ t.pc \in {"update", "done"}
                /\ t.pc = "done" => t.resp.status = 200]_vars

C32_Witness ==
    \E r \in DOMAIN slots :
        /\ WebhookDone(r)
        /\ slots[r].req.body.eventType = "Revoked"
        /\ slots[r].calls = {"select", "status"}
        /\ slots[r].failed = {}
        /\ letters[slots[r].letter.id].esign_status = "revoked"
        /\ letters[slots[r].letter.id].signed_pdf_path # NoPath
        /\ letters[slots[r].letter.id].approval_status = "Executed"

\* the values of esign_status the classifier can produce
ClassifiedStatuses ==
    {"sent", "viewed", "signed", "completed", "declined", "expired", "revoked"}

\* names the classifier does not know: an event type of the provider that is
\* not handled, no name, and names that differ from a handled one in case only
OtherEventNames == {"Reassigned", "", "completed", "SENT"}

StoredKeys == {o[1] : o \in storage}

\* every recorded path has its object, and the path write follows the upload
PathsStored ==
    /\ \A l \in Letters :
            letters[l].signed_pdf_path # NoPath => letters[l].signed_pdf_path \in StoredKeys
    /\ \A r \in DOMAIN slots :
            /\ "path" \in slots[r].calls => "upload" \in slots[r].calls \ slots[r].failed
            /\ slots[r].pc = "setpath" =>
                    /\ "upload" \in slots[r].calls \ slots[r].failed
                    /\ SignedKey(slots[r].letter.id) \in StoredKeys

\* C34: a letter whose signed_pdf_path is set has an object in the bucket at
\* that key: a handler writes the path only after its upload to that key has
\* succeeded, in the step that follows the upload, and no step takes an
\* object out of the bucket.
C34_StoredPathHasArtifact ==
    []PathsStored /\ [][StoredKeys \subseteq {o[1] : o \in storage'}]_vars

C34_Witness ==
    \E r \in DOMAIN slots :
        /\ FetchDone(r)
        /\ slots[r].kind = "fetchService"
        /\ slots[r].calls = {"select", "download", "upload", "path"}
        /\ slots[r].failed = {}
        /\ slots[r].letter.esign_status = "sent"
        /\ letters[slots[r].letter.id].signed_pdf_path = SignedKey(slots[r].letter.id)
        /\ SignedKey(slots[r].letter.id) \in StoredKeys

\* C35: no step of an on-demand fetch request, whatever the request comes to,
\* changes a letter's approval_status or boldsign_document_id, a client
\* record or the document counter, and the request never calls the
\* notification hook or the provider's send endpoint; the step changes no
\* letter but the one fetched, on it signed_pdf_path and, in the service-level
\* variant only, esign_status, which it can only set to completed.
C35_FetchFrame ==
    [][\A r \in DOMAIN slots :
        LET t == slots'[r]
        IN  (t # slots[r] /\ t.kind \in FetchKinds) =>
                /\ UNCHANGED <<clients, issued>>
                /\ t.calls \subseteq {"select", "download", "upload", "path"}
                /\ \A l \in Letters :
                        /\ letters'[l].approval_status = letters[l].approval_status
                        /\ letters'[l].boldsign_document_id = letters[l].boldsign_document_id
                        /\ letters'[l].client_id = letters[l].client_id
                        /\ letters'[l] # letters[l] => l = t.req.letterId /\ "path" \in t.calls
                        /\ letters'[l].esign_status # letters[l].esign_status =>
                                /\ t.kind = "fetchService"
                                /\ letters'[l].esign_status = "completed"]_vars

C35_Witness ==
    \E r \in DOMAIN slots :
        /\ FetchDone(r)
        /\ slots[r].kind = "fetchService"
        /\ {"upload", "path"} \subseteq slots[r].calls \ slots[r].failed
        /\ slots[r].letter.esign_status = "declined"
        /\ letters[slots[r].letter.id].esign_status = "completed"
        /\ letters[slots[r].letter.id].approval_status = "Approved"
        /\ letters[slots[r].letter.id].boldsign_document_id = slots[r].letter.boldsign_document_id
        /\ clients[slots[r].letter.client_id].letter_executed = NoDate

\* C36: a send request that is refused (401, 403), whose payload does not
\* pass validation (400), or that the provider rejects (502) is answered in
\* the step that receives it with every letter, every client record and the
\* provider's documents as they were, and so is every other send request not
\* answered 200; the provider is called only for a request of a firm member
\* with a body within the size limit and a payload that passed validation;
\* and a send request writes a row only after the provider accepted the
\* document.
C36_SendFailureChangesNothing ==
    [][\A r \in DOMAIN slots :
        LET s == slots[r]
            t == slots'[r]
        IN  (t # s /\ t.kind = "send") =>
                /\ (t.pc = "done" /\ t.resp.status # 200) =>
                        /\ s.pc = "idle"
                        /\ UNCHANGED <<letters, clients, storage, issued>>
                        /\ t.calls \subseteq {"send"}
                /\ t.resp.status \in {400, 401, 403, 413} => t.calls = {}
                /\ t.resp.status = 502 => "send" \in t.failed
                /\ "send" \in t.calls =>
                        t.req.size = "ok" /\ t.req.auth = "member" /\ t.req.payload = "valid"
                /\ t.req.payload = "invalid" =>
                        t.pc = "done" /\ t.resp.status \in {400, 401, 403, 413, 500}
                /\ <<letters, clients, issued>>' # <<letters, clients, issued>> =>
                        "send" \in t.calls \ t.failed]_vars

C36_Witness ==
    \E r \in DOMAIN slots :
        /\ slots[r].kind = "send" /\ slots[r].pc = "done"
        /\ slots[r].resp.status = 502
        /\ slots[r].calls = {"send"} /\ slots[r].failed = {"send"}
        /\ slots[r].req.letterId \in Letters
        /\ slots[r].req.clientId \in Clients
        /\ letters[slots[r].req.letterId] = NewLetter
        /\ clients[slots[r].req.clientId] = NewClient
        /\ issued = 0

\* C37: once the provider has accepted the document, a letter update that
\* fails leaves every letter as it was, the handler still goes on to the
\* client update when the request names a client, and the request is still
\* answered 200 with the document id the provider issued: the step after the
\* letter update is the client update or that answer, and the client update
\* is followed by that answer whether or not it failed.
C37_LetterUpdateFailureTolerated ==
    [][\A r \in DOMAIN slots :
        LET s == slots[r]
            t == slots'[r]
            ok == [Response(200, "") EXCEPT !.documentId = s.letter.documentId]
        IN  (s.kind = "send" /\ t # s) =>
                /\ (s.pc = "letter" /\ "letter" \in t.failed) =>
                        /\ letters' = letters
                        /\ s.req.clientId # "" => t.pc = "client"
                        /\ s.req.clientId = "" => t.pc = "done" /\ t.resp = ok
                /\ s.pc = "client" =>
                        /\ "client" \in t.calls
                        /\ t.pc = "done" /\ t.resp = ok
                        /\ t.failed \cap {"letter"} = s.failed \cap {"letter"}
                        /\ letters' = letters]_vars

C37_Witness ==
    \E r \in DOMAIN slots :
        /\ slots[r].kind = "send" /\ slots[r].pc = "done"
        /\ slots[r].req.letterId \in Letters
        /\ slots[r].req.clientId \in Clients
        /\ slots[r].calls = {"send", "letter", "client"}
        /\ slots[r].failed = {"letter"}
        /\ slots[r].resp.status = 200
        /\ slots[r].resp.documentId = issued /\ issued = 2
        /\ letters[slots[r].req.letterId].boldsign_document_id = 1
        /\ letters[slots[r].req.letterId].esign_status = "completed"
        /\ clients[slots[r].req.clientId].status = "Letter Sent"

\* the steps of a Completed delivery for a known letter when no provider API
\* key is configured: the status update, when it succeeds, leaves the letter
\* completed and Executed with its path as it was, and is followed by the
\* client update; the client update, when it succeeds, leaves the client
\* Executed, and is followed by the notification (always, or when a Slack URL
\* is configured) or else by the 200 answer; the notification is followed by
\* the 200 answer; and no step downloads, uploads or writes a path.
NoKeyCompletedStep(r, always) ==
    LET s == slots[r]
        t == slots'[r]
    IN  (/\ ~env.apiKey
         /\ s.kind = "webhook" /\ s.pc \in {"update", "client", "notify"}
         /\ s.req.body.eventType = "Completed"
         /\ t # s) =>
            /\ t.calls \cap {"download", "upload", "path"} = {}
            /\ storage' = storage
            /\ \A l \in Letters : letters'[l].signed_pdf_path = letters[l].signed_pdf_path
            /\ s.pc = "update" =>
                    /\ "status" \in t.calls /\ t.pc = "client"
                    /\ "status" \notin t.failed =>
                            /\ letters'[s.letter.id].esign_status = "completed"
                            /\ letters'[s.letter.id].approval_status = "Executed"
            /\ s.pc = "client" =>
                    /\ "client" \in t.calls
                    /\ "client" \notin t.failed =>
                            clients'[s.letter.client_id].status = "Executed"
                    /\ IF always \/ env.slackUrl THEN t.pc = "notify"
                       ELSE t.pc = "done" /\ t.resp.status = 200
            /\ s.pc = "notify" =>
                    /\ "slack" \in t.calls
                    /\ t.pc = "done" /\ t.resp.status = 200

\* C38 as stated: with no provider API key configured, a Completed delivery
\* for a known letter skips the retrieval, writes completed and Executed,
\* updates the client, attempts the notification and is answered 200.
C38_NoApiKeyCompleted == [][\A r \in DOMAIN slots : NoKeyCompletedStep(r, TRUE)]_vars

\* C38: the same, the notification being attempted when a Slack webhook URL
\* is configured; with none configured the client update is followed by the
\* 200 answer.
C38_NoApiKeyCompletedNotifyIfConfigured ==
    [][\A r \in DOMAIN slots : NoKeyCompletedStep(r, FALSE)]_vars

C38_Witness ==
    \E r \in DOMAIN slots :
        /\ ~env.apiKey /\ env.slackUrl
        /\ CompletedDone(r)
        /\ slots[r].calls = {"select", "status", "client", "slack"}
        /\ slots[r].failed = {}
        /\ slots[r].resp.status = 200
        /\ letters[slots[r].letter.id].esign_status = "completed"
        /\ letters[slots[r].letter.id].approval_status = "Executed"
        /\ letters[slots[r].letter.id].signed_pdf_path = NoPath
        /\ clients[slots[r].letter.client_id].status = "Executed"
        /\ storage = {}

====
